---- MODULE Spec2Model ----
(***************************************************************************)
(* Model of the immediate-mode UI engine in src/renderer/cui.ts: the raw   *)
(* and edge button sets, the single-owner mouse capture, the style         *)
(* cascade, the viewport stack and the wrapping flow layout.               *)
(*                                                                         *)
(* The driver (render(), cui.ts:636-654) runs a frame synchronously        *)
(* between enter() and exit(); DOM event handlers run to completion        *)
(* between frames, never inside one.                                       *)
(***************************************************************************)
EXTENDS Integers, Sequences, FiniteSets, TLC

\* ---------------------------------------------------------------- bounds
NumButtons == 2          \* buttons 0..NumButtons-1 (the code tracks 5)
MaxChecks == 3           \* checkState calls issued in one frame
MaxViewports == 2        \* depth of the viewport stack
MaxStyles == 3           \* depth of the style stack
MaxLayouts == 2          \* depth of the layout stack
MaxLayoutCalls == 3      \* calculateLayout calls issued in one run
MaxStackDepth == 3       \* nested calculateFlowLayout invocations the runtime allows
MaxContexts == 3         \* depth of the layout stack where closers and scopes are followed
MaxClosers == 2          \* closers returned by flow() that the driver holds at once
MaxScopes == 1           \* flow(scope) bodies running inside one another

\* ------------------------------------------------------------- constants
NEGATIVE_INFINITY == -1000   \* Number.NEGATIVE_INFINITY: below every coordinate
PrimaryButton == 0           \* the literal in isMouseButtonReleased(0)
NoCapture == -1              \* mouseCaptureId when nobody holds capture

Buttons == 0 .. (NumButtons - 1)

outside == <<NEGATIVE_INFINITY, NEGATIVE_INFINITY>>

\* the base viewport: the canvas inset by the padding chosen at start-up
BaseViewport == <<10, 10, 100, 50>>

\* rectangles the driver pushes as viewports
ViewportRects == {<<10, 10, 45, 50>>}

\* rectangles the driver passes to checkState
WidgetRects == {<<10, 10, 30, 20>>, <<30, 10, 40, 20>>}

\* pointer positions delivered by mousemove
PointerPositions == {<<35, 20>>, <<60, 20>>}

VARIABLES
    mouse,                 \* pointer position <<x, y>>
    MouseButtonDown, MouseButtonUp,
    MouseButtonPressed, MouseButtonReleased, MouseButtonRepeated,
    mouseCaptureId, mouseCaptureNextId,
    styles, layouts, viewports,
    layoutRefs,            \* identity of each entry of layouts (0 is the base object)
    closers,               \* contexts whose closer the driver still holds
    scopes,                \* flow(scope) invocations whose body is running, outermost first
    thrown,                \* the error that ended the frame's calls, or "none"
    phase,                 \* driver position: "out" between frames, "in" inside one
    calc,                  \* the calculateLayout call in progress or last finished, with
                           \* the columnStart it started from
    last,                  \* history: the last operation and what it returned
    prevDown,              \* history: raw Down of the previous frame
    upTrans,               \* history: buttons that went raw-down -> raw-up since the previous frame
    pressAt,               \* history: pointer position in the first frame that saw the
                           \*          primary button of the current hold raw-down
    reacted,               \* history: a checkState call of this frame reported hover or active
    frameCalls,            \* history: checkState calls made since the last enter()
    droppedTaken,          \* history: the branch that clears Pressed for a raw-down button ran
    gesture,               \* history: the press-drag-release gesture being followed
    styleSnap,             \* history: getStyle table recorded before each push
    styleLast,             \* history: the last style operation
    ghost,                 \* history: reference row cursor per layout context
    layLast,               \* history: the last layout operation, if it was a stack operation
    nLayoutCalls           \* history: calculateLayout calls issued so far

inputVars == <<mouse, MouseButtonDown, MouseButtonUp, MouseButtonPressed,
               MouseButtonReleased, MouseButtonRepeated>>
captureVars == <<mouseCaptureId, mouseCaptureNextId>>
inputHist == <<prevDown, upTrans>>
captureHist == <<pressAt, reacted, frameCalls, droppedTaken>>
styleHist == <<styleSnap, styleLast>>
layoutHist == <<ghost, nLayoutCalls>>
flowVars == <<layoutRefs, closers, scopes, thrown, layLast>>
vars == <<mouse, MouseButtonDown, MouseButtonUp, MouseButtonPressed,
          MouseButtonReleased, MouseButtonRepeated, mouseCaptureId,
          mouseCaptureNextId, styles, layouts, viewports, phase, calc, last,
          prevDown, upTrans, pressAt, reacted, frameCalls,
          droppedTaken, gesture, styleSnap, styleLast, ghost, nLayoutCalls,
          layoutRefs, closers, scopes, thrown, layLast>>

\* ------------------------------------------------------------ InputState
isMouseDown(Down) == Cardinality(Down) > 0

isMouseButtonReleased(Released, button) == button \in Released

\* variant: Pressed as a one-frame rising edge (cleared on the second frame)
updateMouseButtonState_edge(Down, Up, Pressed, Released, Repeated) ==
    LET stay     == {b \in Down : b \in Pressed}
        fresh    == {b \in Down : b \notin Pressed /\ b \notin Repeated}
        Pressed1 == (Pressed \ stay) \cup fresh
        Repeated1 == Repeated \cup stay
        rel      == {b \in Up : b \in Pressed1 \/ b \in Repeated1}
    IN  [Pressed  |-> Pressed1 \ Up,
         Repeated |-> Repeated1 \ Up,
         Released |-> (Released \cup rel) \ (Up \ rel)]

\* variant: Released only for a button that was already Repeated
updateMouseButtonState_relRepeated(Down, Up, Pressed, Released, Repeated) ==
    LET stay     == {b \in Down : b \in Pressed}
        fresh    == {b \in Down : b \notin Pressed /\ b \notin Repeated}
        dropped  == {b \in Down : b \notin Pressed /\ b \in Repeated}
        Pressed1 == ((Pressed \cup stay) \cup fresh) \ dropped
        Repeated1 == Repeated \cup stay
        rel      == {b \in Up : b \in Repeated1}
    IN  [Pressed  |-> Pressed1 \ Up,
         Repeated |-> Repeated1 \ Up,
         Released |-> (Released \cup rel) \ (Up \ rel)]

\* variant: a released button stays in Pressed
updateMouseButtonState_keepPressed(Down, Up, Pressed, Released, Repeated) ==
    LET stay     == {b \in Down : b \in Pressed}
        fresh    == {b \in Down : b \notin Pressed /\ b \notin Repeated}
        dropped  == {b \in Down : b \notin Pressed /\ b \in Repeated}
        Pressed1 == ((Pressed \cup stay) \cup fresh) \ dropped
        Repeated1 == Repeated \cup stay
        rel      == {b \in Up : b \in Pressed1 \/ b \in Repeated1}
    IN  [Pressed  |-> Pressed1,
         Repeated |-> Repeated1 \ Up,
         Released |-> (Released \cup rel) \ (Up \ rel)]

\* one pass of the two loops; the buttons are independent of each other
updateMouseButtonState(Down, Up, Pressed, Released, Repeated) ==
    LET stay     == {b \in Down : b \in Pressed}
        fresh    == {b \in Down : b \notin Pressed /\ b \notin Repeated}
        dropped  == {b \in Down : b \notin Pressed /\ b \in Repeated}
        Pressed1 == ((Pressed \cup stay) \cup fresh) \ dropped
        Repeated1 == Repeated \cup stay
        rel      == {b \in Up : b \in Pressed1 \/ b \in Repeated1}
    IN  [Pressed  |-> Pressed1 \ Up,
         Repeated |-> Repeated1 \ Up,
         Released |-> (Released \cup rel) \ (Up \ rel)]

\* the buttons for which the last branch of the first loop runs: raw-down,
\* Repeated but not Pressed
clearedWhileDown(Down, Pressed, Repeated) ==
    {b \in Down : b \notin Pressed /\ b \in Repeated}

\* ----------------------------------------------------------- hit testing
inRect(x, y, width, height, px, py) ==
    x <= px /\ px <= x + width /\ y <= py /\ py <= y + height

getViewport(vps) == vps[Len(vps)]

\* variant: the viewport test is missing
checkHover_noViewport(vps, x, y, width, height, px, py) ==
    inRect(x, y, width, height, px, py)

checkHover(vps, x, y, width, height, px, py) ==
    LET v == getViewport(vps)
    IN  inRect(v[1], v[2], v[3], v[4], px, py) /\ inRect(x, y, width, height, px, py)

\* -------------------------------------------------------- CaptureArbiter
isMouseCaptured(capId) == capId # NoCapture

isMouseCapturedBy(capId, id) == capId = id

\* variant: the early return for a capture held by another id is missing
checkState_noSuppress(capId, id, rect, vps, ptr, Down, Released) ==
    IF isMouseCapturedBy(capId, id)
    THEN LET clicked == isMouseButtonReleased(Released, PrimaryButton)
         IN  [capture |-> IF clicked THEN NoCapture ELSE capId,
              result  |-> <<FALSE, TRUE, clicked>>]
    ELSE LET over == checkHover(vps, rect[1], rect[2], rect[3], rect[4], ptr[1], ptr[2])
             down == over /\ isMouseDown(Down)
         IN  [capture |-> IF down THEN id ELSE capId,
              result  |-> <<over, down, FALSE>>]

\* variant: the owner lets go as soon as no button is down
checkState_releaseWhenUp(capId, id, rect, vps, ptr, Down, Released) ==
    IF isMouseCapturedBy(capId, id)
    THEN LET clicked == ~isMouseDown(Down)
         IN  [capture |-> IF clicked THEN NoCapture ELSE capId,
              result  |-> <<FALSE, TRUE, clicked>>]
    ELSE IF isMouseCaptured(capId)
    THEN [capture |-> capId, result |-> <<FALSE, FALSE, FALSE>>]
    ELSE LET over == checkHover(vps, rect[1], rect[2], rect[3], rect[4], ptr[1], ptr[2])
             down == over /\ isMouseDown(Down)
         IN  [capture |-> IF down THEN id ELSE capId,
              result  |-> <<over, down, FALSE>>]

\* the body of checkState after the id was drawn; captureMouse and
\* releaseMouse are only called where their guards cannot throw
checkState(capId, id, rect, vps, ptr, Down, Released) ==
    IF isMouseCapturedBy(capId, id)
    THEN LET clicked == isMouseButtonReleased(Released, PrimaryButton)
         IN  [capture |-> IF clicked THEN NoCapture ELSE capId,
              result  |-> <<FALSE, TRUE, clicked>>]
    ELSE IF isMouseCaptured(capId)
    THEN [capture |-> capId, result |-> <<FALSE, FALSE, FALSE>>]
    ELSE LET over == checkHover(vps, rect[1], rect[2], rect[3], rect[4], ptr[1], ptr[2])
             down == over /\ isMouseDown(Down)
         IN  [capture |-> IF down THEN id ELSE capId,
              result  |-> <<over, down, FALSE>>]

\* ---------------------------------------------------------- StyleCascade
\* A JS object of the cascade: its own properties, its own pseudo-state
\* sub-objects (the keys "hover" and "active") and its prototype.
PseudoSelectors == {"hover", "active"}

Null == [null |-> TRUE]

Obj(props, pseudo, proto) ==
    [null |-> FALSE, props |-> props, pseudo |-> pseudo, proto |-> proto]

\* obj[key] for a property key: own property first, then the prototype chain
RECURSIVE lookupProp(_, _)
lookupProp(obj, key) ==
    IF obj.null THEN "undefined"
    ELSE IF key \in DOMAIN obj.props THEN obj.props[key]
    ELSE lookupProp(obj.proto, key)

\* obj[pseudo] for a pseudo-state key, Null when no object of the chain has it
RECURSIVE lookupPseudo(_, _)
lookupPseudo(obj, ps) ==
    IF obj.null THEN Null
    ELSE IF ps \in DOMAIN obj.pseudo THEN obj.pseudo[ps]
    ELSE lookupPseudo(obj.proto, ps)

\* the base overlay styles[0]
BaseStyle ==
    [s \in {"button"} |->
        Obj([k \in {"padding", "radius", "fill", "color"} |->
                CASE k = "padding" -> ".25rem .5rem"
                  [] k = "radius"  -> "2px"
                  [] k = "fill"    -> "#333"
                  [] k = "color"   -> "#EEE"],
            [ps \in PseudoSelectors |->
                IF ps = "hover"
                THEN Obj([k \in {"fill", "color"} |-> IF k = "fill" THEN "#555" ELSE "#FFF"],
                         <<>>, Null)
                ELSE Obj([k \in {"fill", "color"} |-> IF k = "fill" THEN "#111" ELSE "#DDD"],
                         <<>>, Null)],
            Null)]

\* variant: the overrides are written into the objects of the current top
\* overlay (no Object.create), and that overlay is pushed again
pushStyle_inPlace(sts, props) ==
    LET current == sts[Len(sts)]
        Assign(a, b) == [k \in DOMAIN a \cup DOMAIN b |-> IF k \in DOMAIN b THEN b[k] ELSE a[k]]
        rules == [s \in DOMAIN current \cup DOMAIN props |->
            IF s \notin DOMAIN props THEN current[s]
            ELSE LET target == IF s \in DOMAIN current THEN current[s]
                               ELSE Obj(<<>>, <<>>, Null)
                 IN  Obj(Assign(target.props, props[s].props),
                         Assign(target.pseudo,
                                [ps \in DOMAIN props[s].pseudo |->
                                    Obj(props[s].pseudo[ps], <<>>,
                                        lookupPseudo(target, ps))]),
                         target.proto)]
    IN  Append([sts EXCEPT ![Len(sts)] = rules], rules)

\* props maps each selector it mentions to [props, pseudo]: the plain
\* properties and, per pseudo-state key, the properties of that state
pushStyle(sts, props) ==
    LET current == sts[Len(sts)]
        rules == [s \in DOMAIN props |->
            LET parent == IF s \in DOMAIN current THEN current[s] ELSE Null
            IN  Obj(props[s].props,
                    [ps \in DOMAIN props[s].pseudo |->
                        Obj(props[s].pseudo[ps], <<>>, lookupPseudo(parent, ps))],
                    parent)]
    IN  Append(sts, rules)

popStyle(sts) == IF Len(sts) = 1 THEN sts ELSE SubSeq(sts, 1, Len(sts) - 1)

\* getStyle("main", key) is pseudo = ""; getStyle("main:pseudo", key) otherwise
getStyle(sts, main, pseudo, key) ==
    LET style == sts[Len(sts)]
    IN  IF main \notin DOMAIN style THEN "undefined"
        ELSE IF pseudo # "" THEN lookupProp(lookupPseudo(style[main], pseudo), key)
        ELSE lookupProp(style[main], key)

\* the queries and overrides the driver issues
Selectors == {"button", "box"}
StyleKeys == {"fill", "color"}
PushValues == {"#F00", "#0F0"}
Queries == Selectors \X ({""} \cup PseudoSelectors) \X (StyleKeys \cup {"radius"})

StyleDefs ==
    {[props |-> (k :> v), pseudo |-> <<>>] : k \in StyleKeys, v \in PushValues}
    \cup {[props |-> <<>>, pseudo |-> ("hover" :> (k :> v))] : k \in StyleKeys, v \in PushValues}
    \cup {[props |-> ("fill" :> v), pseudo |-> ("active" :> ("color" :> v))] : v \in PushValues}

StyleOverrides ==
    {(s :> d) : s \in Selectors, d \in StyleDefs}
    \cup {[s \in Selectors |-> d] : d \in StyleDefs}

GetStyleTable(sts) == [q \in Queries |-> getStyle(sts, q[1], q[2], q[3])]

\* ---------------------------------------------------------- LayoutEngine
BaseLayout == [type |-> "flow", rowStart |-> 0, columnStart |-> 0, maxRowHeight |-> 0]

\* the context flow() creates
FreshFlow == [type |-> "flow", rowStart |-> 0, columnStart |-> 0, maxRowHeight |-> 0]

getLayout(ls) == ls[Len(ls)]

\* variant: the guard for the base entry is missing
popLayout_noGuard(ls) == SubSeq(ls, 1, Len(ls) - 1)

popLayout(ls) == IF Len(ls) = 1 THEN ls ELSE SubSeq(ls, 1, Len(ls) - 1)

\* the object in the layouts initialiser
BaseRef == 0

\* layouts.indexOf(context) on the identities, 1-based; 0 where the code gets -1
indexOf(refs, ref) ==
    IF \E i \in 1 .. Len(refs) : refs[i] = ref
    THEN CHOOSE i \in 1 .. Len(refs) :
            refs[i] = ref /\ \A j \in 1 .. (i - 1) : refs[j] # ref
    ELSE 0

\* variant: the entry at index is kept
splice_keepTarget(ls, index) == SubSeq(ls, 1, index)

\* layouts.splice(index): drop the entry at index and everything after it
splice(ls, index) == SubSeq(ls, 1, index - 1)

\* the identity of a newly created context object: one that nothing refers to
NewRef(refs, held, running) ==
    LET used == {refs[i] : i \in 1 .. Len(refs)} \cup held
                    \cup {running[i].ref : i \in 1 .. Len(running)}
    IN  CHOOSE n \in 1 .. (Cardinality(used) + 1) :
            n \notin used /\ \A m \in 1 .. (n - 1) : m \in used

InvalidLayoutContext == "Invalid layout context"

Max(a, b) == IF a >= b THEN a ELSE b

\* one invocation of calculateFlowLayout up to its return or its recursive
\* call: returned tells which, flow is the context as the invocation left it
calculateFlowLayout(vp, flow, xOffset, yOffset, width, height) ==
    LET ox == vp[1] + flow.columnStart + xOffset
        oy == vp[2] + flow.rowStart + yOffset
        potentialRight == ox + width
        viewportRight == vp[1] + vp[3]
        maxRowHeight == Max(flow.maxRowHeight, height)
    IN  IF potentialRight < viewportRight
        THEN [returned |-> TRUE,
              flow |-> [flow EXCEPT !.maxRowHeight = maxRowHeight,
                                    !.columnStart = @ + width],
              placement |-> <<ox, oy, width, height>>]
        ELSE [returned |-> FALSE,
              flow |-> [flow EXCEPT !.rowStart = @ + maxRowHeight,
                                    !.columnStart = 0,
                                    !.maxRowHeight = 0],
              placement |-> <<0, 0, 0, 0>>]

\* the sizes and offsets the driver requests
LayoutWidths == {40, 60, 120}
LayoutHeights == {10, 20}
LayoutOffsets == {<<0, 0>>, <<5, 5>>}

CalcIdle == [status |-> "idle", args |-> <<0, 0, 0, 0>>, depth |-> 0,
             result |-> <<0, 0, 0, 0>>, from |-> 0]

\* reference row cursor of a context: what has been placed in its current row
GhostFresh == [rowSum |-> 0, rowTop |-> 0, rowMax |-> 0, clean |-> TRUE,
               expected |-> <<0, 0, 0, 0>>]

\* the reference placement: keep the element in the row while it fits, else
\* open a new row and place it at column 0 there
GhostPlace(g, vp, xOffset, yOffset, width, height) ==
    IF g.rowSum + width < vp[3]
    THEN [g EXCEPT !.rowSum = @ + width, !.rowMax = Max(@, height),
                   !.clean = @ /\ xOffset = 0 /\ yOffset = 0,
                   !.expected = <<vp[1] + g.rowSum, vp[2] + g.rowTop, width, height>>]
    ELSE [g EXCEPT !.rowSum = width, !.rowMax = height,
                   !.rowTop = @ + Max(g.rowMax, height),
                   !.clean = @ /\ xOffset = 0 /\ yOffset = 0,
                   !.expected = <<vp[1], vp[2] + g.rowTop + Max(g.rowMax, height),
                                  width, height>>]

\* ------------------------------------------------------------------ Init
NoCall == [op |-> "none", id |-> -1, pre |-> NoCapture,
           result |-> <<FALSE, FALSE, FALSE>>, over |-> FALSE, pressOver |-> FALSE,
           second |-> FALSE, depth |-> 0]

NoGesture == [stage |-> "none", id |-> -1, rect |-> <<0, 0, 0, 0>>, btn |-> -1,
              moved |-> FALSE]

NoStyleOp(op) == [op |-> op, props |-> <<>>, snap |-> <<>>, popped |-> FALSE]

NoLayoutOp == [op |-> "none", ref |-> BaseRef, before |-> <<>>]

Init ==
    /\ mouse = outside
    /\ MouseButtonDown = {}
    /\ MouseButtonUp = Buttons
    /\ MouseButtonPressed = {}
    /\ MouseButtonReleased = {}
    /\ MouseButtonRepeated = {}
    /\ mouseCaptureId = NoCapture
    /\ mouseCaptureNextId = 0
    /\ styles = <<BaseStyle>>
    /\ layouts = <<BaseLayout>>
    /\ viewports = <<BaseViewport>>
    /\ phase = "out"
    /\ calc = CalcIdle
    /\ last = NoCall
    /\ prevDown = {}
    /\ upTrans = {}
    /\ pressAt = outside
    /\ reacted = FALSE
    /\ frameCalls = 0
    /\ droppedTaken = FALSE
    /\ gesture = NoGesture
    /\ styleSnap = <<>>
    /\ styleLast = NoStyleOp("init")
    /\ ghost = <<GhostFresh>>
    /\ nLayoutCalls = 0
    /\ layoutRefs = <<BaseRef>>
    /\ closers = {}
    /\ scopes = <<>>
    /\ thrown = "none"
    /\ layLast = NoLayoutOp

\* the driver may issue a call: inside a frame, no call running, no error raised
CanCall ==
    /\ phase = "in"
    /\ calc.status \notin {"running", "RangeError"}
    /\ thrown = "none"

\* ----------------------------------------------------------- frame hooks
Enter ==
    /\ phase = "out"
    /\ phase' = "in"
    /\ mouseCaptureNextId' = 0
    /\ LET u == updateMouseButtonState(MouseButtonDown, MouseButtonUp,
                    MouseButtonPressed, MouseButtonReleased, MouseButtonRepeated)
       IN  /\ MouseButtonPressed' = u.Pressed
           /\ MouseButtonReleased' = u.Released
           /\ MouseButtonRepeated' = u.Repeated
    /\ pressAt' = IF PrimaryButton \notin MouseButtonDown THEN outside
                  ELSE IF PrimaryButton \notin prevDown THEN mouse ELSE pressAt
    /\ reacted' = FALSE
    /\ frameCalls' = 0
    /\ droppedTaken' = (droppedTaken \/ clearedWhileDown(MouseButtonDown,
                            MouseButtonPressed, MouseButtonRepeated) # {})
    /\ gesture' = IF gesture.stage = "released"
                  THEN [gesture EXCEPT !.stage = "releaseFrame"] ELSE gesture
    /\ last' = NoCall
    /\ UNCHANGED <<mouse, MouseButtonDown, MouseButtonUp, mouseCaptureId, styles,
                   layouts, viewports, calc, inputHist, styleHist, layoutHist, flowVars>>

Exit ==
    /\ phase = "in"
    /\ calc.status # "running"
    /\ scopes = <<>>
    /\ phase' = "out"
    /\ styles' = <<styles[1]>>
    /\ layouts' = <<layouts[1]>>
    /\ layoutRefs' = <<layoutRefs[1]>>
    /\ thrown' = "none"
    /\ layLast' = NoLayoutOp
    /\ viewports' = <<viewports[1]>>
    /\ MouseButtonReleased' = {}
    /\ calc' = CalcIdle
    /\ last' = NoCall
    /\ prevDown' = MouseButtonDown
    /\ upTrans' = {}
    /\ reacted' = FALSE
    /\ gesture' = IF gesture.stage = "releaseFrame" THEN NoGesture ELSE gesture
    /\ styleSnap' = <<>>
    /\ styleLast' = NoStyleOp("exit")
    /\ ghost' = <<ghost[1]>>
    /\ UNCHANGED <<mouse, MouseButtonDown, MouseButtonUp, MouseButtonPressed,
                   MouseButtonRepeated, captureVars, pressAt, frameCalls,
                   droppedTaken, nLayoutCalls, closers, scopes>>

\* -------------------------------------------------------- event handlers
onmousemove(p) ==
    /\ mouse' = p
    /\ gesture' = IF gesture.stage = "held"
                     /\ ~inRect(gesture.rect[1], gesture.rect[2], gesture.rect[3],
                                gesture.rect[4], p[1], p[2])
                  THEN [gesture EXCEPT !.moved = TRUE] ELSE gesture
    /\ UNCHANGED <<MouseButtonDown, MouseButtonUp, MouseButtonPressed,
                   MouseButtonReleased, MouseButtonRepeated, captureVars, styles,
                   layouts, viewports, phase, calc, inputHist, captureHist, styleHist, layoutHist, flowVars>>

OnMouseMove ==
    /\ phase = "out"
    /\ \E p \in PointerPositions : onmousemove(p)
    /\ last' = NoCall

OnMouseOut ==
    /\ phase = "out"
    /\ onmousemove(outside)
    /\ last' = NoCall

OnMouseDown ==
    /\ phase = "out"
    /\ \E button \in Buttons :
        /\ MouseButtonDown' = MouseButtonDown \cup {button}
        /\ MouseButtonUp' = MouseButtonUp \ {button}
        /\ gesture' = IF gesture.stage = "released" /\ gesture.btn = button
                      THEN NoGesture ELSE gesture
    /\ last' = NoCall
    /\ UNCHANGED <<mouse, MouseButtonPressed, MouseButtonReleased, MouseButtonRepeated,
                   captureVars, styles, layouts, viewports, phase, calc, inputHist, captureHist,
                   styleHist, layoutHist, flowVars>>

OnMouseUp ==
    /\ phase = "out"
    /\ \E button \in Buttons :
        /\ MouseButtonUp' = MouseButtonUp \cup {button}
        /\ MouseButtonDown' = MouseButtonDown \ {button}
        /\ upTrans' = IF button \in MouseButtonDown THEN upTrans \cup {button} ELSE upTrans
        /\ gesture' = IF gesture.stage = "held" /\ gesture.btn = button
                      THEN [gesture EXCEPT !.stage = "released"] ELSE gesture
    /\ last' = NoCall
    /\ UNCHANGED <<mouse, MouseButtonPressed, MouseButtonReleased, MouseButtonRepeated,
                   captureVars, styles, layouts, viewports, phase, calc, prevDown,
                   captureHist, styleHist, layoutHist, flowVars>>

\* ------------------------------------------------------------ checkState
CheckState ==
    /\ CanCall
    /\ mouseCaptureNextId < MaxChecks
    /\ \E rect \in WidgetRects :
        LET id == mouseCaptureNextId
            r  == checkState(mouseCaptureId, id, rect, viewports, mouse,
                             MouseButtonDown, MouseButtonReleased)
        IN  /\ mouseCaptureNextId' = id + 1
            /\ mouseCaptureId' = r.capture
            /\ last' = [op |-> "checkState", id |-> id, pre |-> mouseCaptureId,
                        result |-> r.result,
                        over |-> inRect(rect[1], rect[2], rect[3], rect[4],
                                        mouse[1], mouse[2]),
                        pressOver |-> inRect(rect[1], rect[2], rect[3], rect[4],
                                             pressAt[1], pressAt[2]),
                        second |-> reacted, depth |-> Len(viewports)]
            /\ frameCalls' = frameCalls + 1
            /\ reacted' = (reacted \/ r.result[1] \/ r.result[2])
            /\ gesture' =
                 IF mouseCaptureId = NoCapture /\ r.capture = id
                 THEN IF Cardinality(MouseButtonDown) = 1
                      THEN [stage |-> "held", id |-> id, rect |-> rect,
                            btn |-> CHOOSE b \in MouseButtonDown : TRUE,
                            moved |-> FALSE]
                      ELSE NoGesture
                 ELSE IF mouseCaptureId # NoCapture /\ r.capture = NoCapture
                         /\ gesture.stage # "releaseFrame"
                 THEN NoGesture
                 ELSE gesture
    /\ UNCHANGED <<inputVars, styles, layouts, viewports, phase, calc, inputHist,
                   pressAt, droppedTaken, styleHist, layoutHist, flowVars>>

\* --------------------------------------------------------- ViewportStack
PushViewport ==
    /\ CanCall
    /\ Len(viewports) < MaxViewports
    /\ \E rect \in ViewportRects : viewports' = Append(viewports, rect)
    /\ last' = NoCall
    /\ calc' = CalcIdle
    /\ UNCHANGED <<inputVars, captureVars, styles, layouts, phase, inputHist, captureHist,
                   gesture, styleHist, layoutHist, flowVars>>

PopViewport ==
    /\ CanCall
    /\ viewports' = IF Len(viewports) = 1 THEN viewports
                    ELSE SubSeq(viewports, 1, Len(viewports) - 1)
    /\ last' = [NoCall EXCEPT !.op = "popViewport", !.depth = Len(viewports)]
    /\ calc' = CalcIdle
    /\ UNCHANGED <<inputVars, captureVars, styles, layouts, phase, inputHist, captureHist,
                   gesture, styleHist, layoutHist, flowVars>>

Next ==
    \/ Enter
    \/ Exit
    \/ OnMouseMove
    \/ OnMouseOut
    \/ OnMouseDown
    \/ OnMouseUp
    \/ CheckState
    \/ PushViewport
    \/ PopViewport

Spec == Init /\ [][Next]_vars

\* ------------------------------------------------------- style operations
PushStyle ==
    /\ CanCall
    /\ Len(styles) < MaxStyles
    /\ \E props \in StyleOverrides :
        /\ styles' = pushStyle(styles, props)
        /\ styleLast' = [op |-> "pushStyle", props |-> props, snap |-> <<>>,
                         popped |-> FALSE]
    /\ styleSnap' = Append(styleSnap, GetStyleTable(styles))
    /\ UNCHANGED <<inputVars, captureVars, layouts, viewports, phase, calc, last,
                   inputHist, captureHist, gesture, layoutHist, flowVars>>

PopStyle ==
    /\ CanCall
    /\ styles' = popStyle(styles)
    /\ styleLast' = [op |-> "popStyle", props |-> <<>>,
                     snap |-> IF Len(styles) > 1 THEN styleSnap[Len(styleSnap)] ELSE <<>>,
                     popped |-> Len(styles) > 1]
    /\ styleSnap' = IF Len(styles) > 1 THEN SubSeq(styleSnap, 1, Len(styleSnap) - 1)
                    ELSE styleSnap
    /\ UNCHANGED <<inputVars, captureVars, layouts, viewports, phase, calc, last,
                   inputHist, captureHist, gesture, layoutHist, flowVars>>

StyleNext ==
    \/ Enter
    \/ Exit
    \/ PushStyle
    \/ PopStyle

StyleSpec == Init /\ [][StyleNext]_vars

\* ------------------------------------------------------ layout operations
\* flow() called without a body: pushLayout of a fresh Flow context
Flow ==
    /\ CanCall
    /\ Len(layouts) < MaxLayouts
    /\ layouts' = Append(layouts, FreshFlow)
    /\ layoutRefs' = Append(layoutRefs, NewRef(layoutRefs, closers, scopes))
    /\ ghost' = Append(ghost, GhostFresh)
    /\ calc' = CalcIdle
    /\ layLast' = NoLayoutOp
    /\ UNCHANGED <<inputVars, captureVars, styles, viewports, phase, last, inputHist, captureHist,
                   gesture, styleHist, nLayoutCalls, closers, scopes, thrown>>

PopLayout ==
    /\ CanCall
    /\ layouts' = popLayout(layouts)
    /\ layoutRefs' = popLayout(layoutRefs)
    /\ ghost' = IF Len(ghost) = 1 THEN ghost ELSE SubSeq(ghost, 1, Len(ghost) - 1)
    /\ calc' = CalcIdle
    /\ layLast' = [op |-> "popLayout", ref |-> getLayout(layoutRefs),
                   before |-> layoutRefs]
    /\ UNCHANGED <<inputVars, captureVars, styles, viewports, phase, last, inputHist, captureHist,
                   gesture, styleHist, nLayoutCalls, closers, scopes, thrown>>

\* calculateLayout up to the return of the first calculateFlowLayout
\* invocation or up to its recursive call
CalculateLayout ==
    /\ CanCall
    /\ nLayoutCalls < MaxLayoutCalls
    /\ getLayout(layouts).type = "flow"
    /\ \E off \in LayoutOffsets, width \in LayoutWidths, height \in LayoutHeights :
        LET r == calculateFlowLayout(getViewport(viewports), getLayout(layouts),
                                     off[1], off[2], width, height)
        IN  /\ layouts' = [layouts EXCEPT ![Len(layouts)] = r.flow]
            /\ calc' = [status |-> IF r.returned THEN "returned" ELSE "running",
                        args |-> <<off[1], off[2], width, height>>,
                        depth |-> 1,
                        result |-> r.placement,
                        from |-> getLayout(layouts).columnStart]
            /\ ghost' = [ghost EXCEPT ![Len(ghost)] =
                            GhostPlace(@, getViewport(viewports), off[1], off[2],
                                       width, height)]
    /\ nLayoutCalls' = nLayoutCalls + 1
    /\ layLast' = NoLayoutOp
    /\ UNCHANGED <<inputVars, captureVars, styles, viewports, phase, last, inputHist, captureHist,
                   gesture, styleHist, layoutRefs, closers, scopes, thrown>>

\* the recursive calculateFlowLayout invocation after a wrap; past the
\* runtime's stack depth the call ends in a RangeError
CalcRetry ==
    /\ phase = "in"
    /\ calc.status = "running"
    /\ IF calc.depth >= MaxStackDepth
       THEN /\ calc' = [calc EXCEPT !.status = "RangeError"]
            /\ UNCHANGED layouts
       ELSE LET r == calculateFlowLayout(getViewport(viewports), getLayout(layouts),
                                         calc.args[1], calc.args[2], calc.args[3],
                                         calc.args[4])
            IN  /\ layouts' = [layouts EXCEPT ![Len(layouts)] = r.flow]
                /\ calc' = [calc EXCEPT
                              !.status = IF r.returned THEN "returned" ELSE "running",
                              !.depth = @ + 1,
                              !.result = r.placement]
    /\ UNCHANGED <<inputVars, captureVars, styles, viewports, phase, last, inputHist, captureHist,
                   gesture, styleHist, layoutHist, flowVars>>

LayoutNext ==
    \/ Enter
    \/ Exit
    \/ Flow
    \/ PopLayout
    \/ PushViewport
    \/ PopViewport
    \/ CalculateLayout
    \/ CalcRetry

LayoutSpec == Init /\ [][LayoutNext]_vars

\* ------------------------------------------------- layout stack operations
\* pushLayout of a context object the caller has just created
PushLayout ==
    /\ CanCall
    /\ Len(layouts) < MaxContexts
    /\ layouts' = Append(layouts, FreshFlow)
    /\ layoutRefs' = Append(layoutRefs, NewRef(layoutRefs, closers, scopes))
    /\ ghost' = Append(ghost, GhostFresh)
    /\ calc' = CalcIdle
    /\ layLast' = [op |-> "pushLayout", ref |-> NewRef(layoutRefs, closers, scopes),
                   before |-> layoutRefs]
    /\ UNCHANGED <<inputVars, captureVars, styles, viewports, phase, last, inputHist,
                   captureHist, gesture, styleHist, nLayoutCalls, closers, scopes,
                   thrown>>

\* flow() called without a body, the returned closer kept by the caller
FlowCloser ==
    /\ CanCall
    /\ Len(layouts) < MaxContexts
    /\ Cardinality(closers) < MaxClosers
    /\ LET flow == NewRef(layoutRefs, closers, scopes)
       IN  /\ layoutRefs' = Append(layoutRefs, flow)
           /\ closers' = closers \cup {flow}
           /\ layLast' = [op |-> "flow", ref |-> flow, before |-> layoutRefs]
    /\ layouts' = Append(layouts, FreshFlow)
    /\ ghost' = Append(ghost, GhostFresh)
    /\ calc' = CalcIdle
    /\ UNCHANGED <<inputVars, captureVars, styles, viewports, phase, last, inputHist,
                   captureHist, gesture, styleHist, nLayoutCalls, scopes, thrown>>

\* popLayoutTo(context) applied to the three parallel sequences
popLayoutTo(ref) ==
    LET index == indexOf(layoutRefs, ref)
    IN  IF index = 0
        THEN /\ thrown' = InvalidLayoutContext
             /\ UNCHANGED <<layouts, layoutRefs, ghost>>
        ELSE /\ layouts' = splice(layouts, index)
             /\ layoutRefs' = splice(layoutRefs, index)
             /\ ghost' = splice(ghost, index)
             /\ UNCHANGED thrown

\* a closer returned by flow() is invoked; the caller keeps or drops it
Closer ==
    /\ CanCall
    /\ \E flow \in closers, keep \in BOOLEAN :
        /\ popLayoutTo(flow)
        /\ closers' = IF keep THEN closers ELSE closers \ {flow}
        /\ layLast' = [op |-> "closer", ref |-> flow, before |-> layoutRefs]
        \* the error unwinds every flow(scope) whose body was running
        /\ scopes' = IF indexOf(layoutRefs, flow) = 0 THEN <<>> ELSE scopes
    /\ calc' = CalcIdle
    /\ UNCHANGED <<inputVars, captureVars, styles, viewports, phase, last, inputHist,
                   captureHist, gesture, styleHist, nLayoutCalls>>

\* flow(scope): the context is pushed and the body starts
FlowScopeBegin ==
    /\ CanCall
    /\ Len(layouts) < MaxContexts
    /\ Len(scopes) < MaxScopes
    /\ LET flow == NewRef(layoutRefs, closers, scopes)
       IN  /\ layoutRefs' = Append(layoutRefs, flow)
           /\ scopes' = Append(scopes, [ref |-> flow, refs |-> layoutRefs,
                                        contexts |-> layouts])
    /\ layouts' = Append(layouts, FreshFlow)
    /\ ghost' = Append(ghost, GhostFresh)
    /\ calc' = CalcIdle
    /\ layLast' = NoLayoutOp
    /\ UNCHANGED <<inputVars, captureVars, styles, viewports, phase, last, inputHist,
                   captureHist, gesture, styleHist, nLayoutCalls, closers, thrown>>

\* flow(scope): the body of the innermost running scope has returned
FlowScopeEnd ==
    /\ CanCall
    /\ scopes # <<>>
    /\ LET scope == scopes[Len(scopes)]
       IN  /\ popLayoutTo(scope.ref)
           /\ layLast' = [op |-> "flowScope", ref |-> scope.ref,
                          before |-> <<scope.refs, scope.contexts>>]
           /\ scopes' = IF indexOf(layoutRefs, scope.ref) = 0 THEN <<>>
                        ELSE SubSeq(scopes, 1, Len(scopes) - 1)
    /\ calc' = CalcIdle
    /\ UNCHANGED <<inputVars, captureVars, styles, viewports, phase, last, inputHist,
                   captureHist, gesture, styleHist, nLayoutCalls, closers>>

StackNext ==
    \/ Enter
    \/ Exit
    \/ PopStyle
    \/ PopViewport
    \/ PushLayout
    \/ PopLayout
    \/ FlowCloser
    \/ Closer
    \/ FlowScopeBegin
    \/ FlowScopeEnd

StackSpec == Init /\ [][StackNext]_vars

\* =============================================================== claims
\* C1: at most one capture id is Captured, and a checkState call made while
\* another id holds the capture returns (false, false, false) and leaves the
\* arbiter as it was, also with the pointer inside the widget and a button down.
C1_OtherIdSuppressed ==
    /\ mouseCaptureId \in {NoCapture} \cup (0 .. (MaxChecks - 1))
    /\ (last.op = "checkState" /\ last.pre # NoCapture /\ last.pre # last.id)
         => (last.result = <<FALSE, FALSE, FALSE>> /\ mouseCaptureId = last.pre)

C1_Witness ==
    /\ last.op = "checkState"
    /\ last.pre # NoCapture
    /\ last.pre # last.id
    /\ last.over
    /\ MouseButtonDown # {}

\* C2 (as claimed): a widget captured with one button held, the pointer then
\* dragged outside it; in the first frame after that button went up the call
\* with the owner's index returns (false, true, true) and the arbiter is Idle,
\* whichever button was held.
C2_DragOutReleaseClicks_AnyButton ==
    (last.op = "checkState" /\ gesture.stage = "releaseFrame" /\ gesture.moved
       /\ last.id = gesture.id)
      => (last.result = <<FALSE, TRUE, TRUE>> /\ mouseCaptureId = NoCapture)

\* C3: Captured(id) changes only to Idle, only in the checkState call that is
\* assigned id, only in a frame whose Released set holds the primary button;
\* in a frame without that release the owner's call reports (false, true, false).
C3_CapturePersists ==
    /\ [][(mouseCaptureId # NoCapture /\ mouseCaptureId' # mouseCaptureId)
            => (/\ mouseCaptureId' = NoCapture
                /\ last'.op = "checkState"
                /\ last'.id = mouseCaptureId
                /\ PrimaryButton \in MouseButtonReleased)]_vars
    /\ []((last.op = "checkState" /\ last.pre = last.id
             /\ PrimaryButton \notin MouseButtonReleased)
            => (last.result = <<FALSE, TRUE, FALSE>> /\ mouseCaptureId = last.id))

C3_Witness ==
    /\ last.op = "checkState"
    /\ last.pre = last.id
    /\ last.result = <<FALSE, TRUE, FALSE>>
    /\ mouseCaptureId = last.id
    /\ ~last.over

\* C4: in every frame, each button that is raw-down at enter() is flagged
\* Pressed, in its first down frame and in every later one (sticky).
C4_PressedSticky ==
    phase = "in" => MouseButtonDown \subseteq MouseButtonPressed

C4_Witness ==
    /\ phase = "in"
    /\ MouseButtonRepeated # {}
    /\ MouseButtonRepeated \subseteq MouseButtonDown
    /\ MouseButtonRepeated \subseteq MouseButtonPressed

\* C5 (as claimed): the buttons flagged Released in a frame are exactly those
\* that made a raw-down -> raw-up transition since the previous frame,
\* including a down and an up that both arrive between two frames.
C5_ReleasedAfterEveryUp ==
    phase = "in" => MouseButtonReleased = upTrans

\* C5 (amended): a button is flagged Released in exactly the frames at whose
\* enter() it is raw-up while it was raw-down at the previous frame's enter();
\* between frames Released is empty.
C5_ReleasedOneFrame ==
    /\ phase = "in" => MouseButtonReleased = prevDown \ MouseButtonDown
    /\ phase = "out" => MouseButtonReleased = {}

C5_Witness ==
    /\ phase = "in"
    /\ MouseButtonReleased # {}
    /\ MouseButtonReleased \subseteq upTrans

\* C6: right after pushStyle(overrides) every property the overrides set
\* resolves through getStyle to the pushed value, and right after the
\* matching popStyle() every query resolves to what it did before the push.
C6_PushThenPopRestores ==
    /\ styleLast.op = "pushStyle" =>
         \A s \in DOMAIN styleLast.props :
            /\ \A k \in DOMAIN styleLast.props[s].props :
                  getStyle(styles, s, "", k) = styleLast.props[s].props[k]
            /\ \A ps \in DOMAIN styleLast.props[s].pseudo :
                  \A k \in DOMAIN styleLast.props[s].pseudo[ps] :
                     getStyle(styles, s, ps, k) = styleLast.props[s].pseudo[ps][k]
    /\ (styleLast.op = "popStyle" /\ styleLast.popped) =>
         GetStyleTable(styles) = styleLast.snap

C6_Witness ==
    /\ styleLast.op = "popStyle"
    /\ styleLast.popped
    /\ Len(styles) = 2
    /\ getStyle(styles, "button", "", "fill") = "#F00"

\* the layered reading of the cascade: the first overlay from the top whose
\* own overrides define the property, "undefined" when none does
Defines(overlay, main, pseudo, key) ==
    /\ main \in DOMAIN overlay
    /\ IF pseudo = "" THEN key \in DOMAIN overlay[main].props
       ELSE /\ pseudo \in DOMAIN overlay[main].pseudo
            /\ key \in DOMAIN overlay[main].pseudo[pseudo].props

OwnValue(overlay, main, pseudo, key) ==
    IF pseudo = "" THEN overlay[main].props[key]
    ELSE overlay[main].pseudo[pseudo].props[key]

RECURSIVE WalkDown(_, _, _, _, _)
WalkDown(sts, i, main, pseudo, key) ==
    IF i = 0 THEN "undefined"
    ELSE IF Defines(sts[i], main, pseudo, key) THEN OwnValue(sts[i], main, pseudo, key)
    ELSE WalkDown(sts, i - 1, main, pseudo, key)

Mentions(overlay, main, pseudo) ==
    /\ main \in DOMAIN overlay
    /\ (pseudo = "" \/ pseudo \in DOMAIN overlay[main].pseudo)

\* C7 (as claimed): for every selector or selector:pseudo the top pushed
\* overlay mentions, getStyle equals the walk down the overlay stack to the
\* first overlay that defines the property.
C7_CascadeEqualsWalk ==
    Len(styles) > 1 =>
        \A q \in Queries :
            Mentions(styles[Len(styles)], q[1], q[2]) =>
                getStyle(styles, q[1], q[2], q[3])
                    = WalkDown(styles, Len(styles), q[1], q[2], q[3])

\* C8 (as claimed): after pushStyle(overrides), every query on a selector the
\* overrides do not mention resolves to what it did before the push.
C8_UnmentionedSelectorsInherited ==
    Len(styles) > 1 =>
        \A q \in Queries :
            q[1] \notin DOMAIN styles[Len(styles)] =>
                getStyle(styles, q[1], q[2], q[3]) = styleSnap[Len(styleSnap)][q]

\* C9 (as claimed): in a context that only received zero-offset requests, a
\* calculateLayout call returns the placement at viewport x + the widths
\* already in the row while the element fits, and otherwise the placement at
\* column 0 of a new row advanced by maxRowHeight.
C9_FlowPlacement ==
    ghost[Len(ghost)].clean =>
        /\ calc.status # "RangeError"
        /\ calc.status = "returned" => calc.result = ghost[Len(ghost)].expected

\* C10 (as claimed): a calculateLayout call on a Flow context wraps at most
\* once and then returns a placement, for every width, offset and viewport.
C10_FlowTerminates ==
    /\ calc.status = "running" => calc.depth <= 1
    /\ calc.status # "RangeError"

\* ------------------------------------------------- claims C14, C15, C16, C18, C20
\* is the pointer inside the current top viewport rectangle
PointerInViewport ==
    LET v == getViewport(viewports)
    IN  inRect(v[1], v[2], v[3], v[4], mouse[1], mouse[2])

\* C14: a checkState call made while nobody holds capture reports
\* hover = pointer inside the top viewport and inside the widget rectangle,
\* active = hover and some button raw-down, clicked = false; it leaves the
\* capture with its own id exactly when active, and its id is the number of
\* checkState calls made earlier in the frame.
C14_IdleCheckState ==
    (last.op = "checkState" /\ last.pre = NoCapture) =>
        LET hover  == PointerInViewport /\ last.over
            active == hover /\ MouseButtonDown # {}
        IN  /\ last.result = <<hover, active, FALSE>>
            /\ mouseCaptureId = (IF active THEN last.id ELSE NoCapture)
            /\ last.id = frameCalls - 1

\* an idle call, not the first of its frame, over a widget that the pushed
\* viewport clips away while a button is down
C14_Witness ==
    /\ last.op = "checkState" /\ last.pre = NoCapture
    /\ last.id = 1
    /\ last.over /\ ~PointerInViewport
    /\ MouseButtonDown # {}
    /\ mouseCaptureId = NoCapture

\* C15: within one frame, a checkState call made after a call that reported
\* hover or active reports neither.
C15_OneReactionPerFrame ==
    (last.op = "checkState" /\ last.second) =>
        ~(last.result[1] \/ last.result[2])

\* C16: a call that grants capture while only the primary button is held was
\* given a rectangle that contained the pointer in the first frame that saw
\* the button down.
C16_GrantOnlyAtPressPosition ==
    (last.op = "checkState" /\ last.pre = NoCapture /\ mouseCaptureId = last.id
        /\ MouseButtonDown = {PrimaryButton}) => last.pressOver

\* C18: when the owner's call runs in the first frame after the button that
\* was down at the grant went up, with every button raw-up, the capture is
\* gone after the call, whichever button it was.
C18_CaptureNotStuck ==
    (last.op = "checkState" /\ last.pre = last.id
        /\ gesture.stage = "releaseFrame" /\ gesture.id = last.id
        /\ MouseButtonDown = {}) => mouseCaptureId = NoCapture

\* C20: inside a frame Repeated is a subset of Pressed, Pressed of raw Down,
\* Released of raw Up, Pressed and Released are disjoint, and the branch that
\* clears Pressed for a raw-down button has never run.
C20_EdgeSetsConsistent ==
    /\ phase = "in" =>
        /\ MouseButtonRepeated \subseteq MouseButtonPressed
        /\ MouseButtonPressed \subseteq MouseButtonDown
        /\ MouseButtonReleased \subseteq MouseButtonUp
        /\ MouseButtonPressed \cap MouseButtonReleased = {}
    /\ ~droppedTaken

\* a frame that sees one button held since an earlier frame and another released
C20_Witness ==
    /\ phase = "in"
    /\ MouseButtonRepeated # {}
    /\ MouseButtonReleased # {}

\* ---------------------------------------------------- claims C11, C12, C13
\* C11: when flow(scope) finishes, no error has been raised and the layout
\* stack (the objects and their cursors) is the one from before the call.
C11_FlowScopeRestores ==
    layLast.op = "flowScope" =>
        /\ thrown = "none"
        /\ <<layoutRefs, layouts>> = layLast.before

\* C12: each of the three stacks has an entry 1 and it is the original base
\* entry; popStyle, popLayout and popViewport on a one-entry stack leave it
\* as it is and raise nothing.
C12_BaseEntriesStay ==
    /\ Len(styles) >= 1 /\ styles[1] = BaseStyle
    /\ Len(layouts) >= 1 /\ Len(layoutRefs) = Len(layouts)
    /\ layoutRefs[1] = BaseRef
    /\ Len(viewports) >= 1 /\ viewports[1] = BaseViewport
    /\ (styleLast.op = "popStyle" /\ ~styleLast.popped) => styles = <<BaseStyle>>
    /\ (layLast.op = "popLayout" /\ layLast.ref = BaseRef) =>
            layoutRefs = <<BaseRef>> /\ thrown = "none"
    /\ (last.op = "popViewport" /\ last.depth = 1) => viewports = <<BaseViewport>>

\* each of the three pops has just run on a one-entry stack
C12_Witness ==
    /\ styleLast.op = "popStyle" /\ ~styleLast.popped
    /\ layLast.op = "popLayout" /\ layLast.ref = BaseRef
    /\ last.op = "popViewport" /\ last.depth = 1

\* C13: a closer whose context is on the stack leaves the entries below that
\* context and raises nothing; a closer whose context is not on the stack
\* raises the invalid-layout-context error and leaves the stack as it was.
C13_CloserRemovesOrRaises ==
    layLast.op = "closer" =>
        LET index == indexOf(layLast.before, layLast.ref)
        IN  /\ Len(layouts) = Len(layoutRefs)
            /\ IF index = 0
               THEN /\ thrown = InvalidLayoutContext
                    /\ layoutRefs = layLast.before
               ELSE /\ thrown = "none"
                    /\ layoutRefs = SubSeq(layLast.before, 1, index - 1)
                    /\ \A i \in 1 .. Len(layoutRefs) : layoutRefs[i] # layLast.ref

\* a closer was invoked for a context that had left a stack of several entries
C13_Witness ==
    /\ layLast.op = "closer"
    /\ indexOf(layLast.before, layLast.ref) = 0
    /\ Len(layLast.before) > 1
    /\ thrown = InvalidLayoutContext

\* a closer removed its own context together with one pushed after it
C13_WitnessRemoves ==
    /\ layLast.op = "closer"
    /\ indexOf(layLast.before, layLast.ref) > 0
    /\ indexOf(layLast.before, layLast.ref) < Len(layLast.before)

\* ---------------------------------------------------------- claims C17, C19
\* C17: a calculateLayout call on a Flow context returns from its first
\* invocation, with the placement in the current row and columnStart advanced
\* by the width, exactly when viewport x + columnStart + offset + width is at
\* most viewport x + viewport width; otherwise it wraps.
C17_KeepsRowWhenWithin ==
    calc.status # "idle" =>
        LET vp     == getViewport(viewports)
            ox     == vp[1] + calc.from + calc.args[1]
            within == ox + calc.args[3] <= vp[1] + vp[3]
            kept   == /\ calc.status = "returned" /\ calc.depth = 1
                      /\ calc.result[1] = ox /\ calc.result[3] = calc.args[3]
                      /\ getLayout(layouts).columnStart = calc.from + calc.args[3]
        IN  within <=> kept

\* C19: between frames the base Flow context has the cursor (0, 0, 0), so
\* every frame starts from it.
C19_BaseCursorReset ==
    phase = "out" => layouts = <<BaseLayout>>

====
